---- MODULE Spec2Model ----
(***************************************************************************)
(* A model of package eotel (logger.go, middleware.go, config.go): the     *)
(* Eotel logger, its span / metrics / export protocol, the panic guard     *)
(* and the gin middleware.                                                 *)
(*                                                                         *)
(* Collaborators are modelled by the calls they receive:                   *)
(*   zap logger      -> zapOut   (one record per Info/Error/... call)      *)
(*   trace.Span      -> spans    (attributes set, errors recorded, End     *)
(*                                calls counted per span)                  *)
(*   metric counter  -> logTotal, histogram -> durHist                     *)
(*   Exporter.Send   -> logChan  (the channel) and sendCalls               *)
(*   CaptureError    -> captured                                           *)
(***************************************************************************)
EXTENDS Integers, Sequences, FiniteSets, TLC

\* ---------------------------------------------------------------- bounds
MaxLoggers == 2      \* Eotel values allocated in a run
MaxFields  == 2      \* caller fields / errors attached in a run
MaxEmits   == 2      \* emission calls in a run (also bounds the clock)

MaxSpans == MaxLoggers + 1   \* one span per logger and the middleware's root span

\* ---------------------------------------------------------------- inputs
Keys      == {"a", "b"}
\* a native value is <<dynamic type, printed form>>; the (key, value) pairs
\* callers attach: a repeated key with another value, and two keys attached
\* against their sort order
FieldInputs == {<<"b", <<"int", "1">>>>, <<"a", <<"string", "1">>>>,
                <<"b", <<"string", "2">>>>}
NonFatal  == {"debug", "info", "warn", "error"}
Levels    == NonFatal \cup {"fatal"}
\* an error value is <<kind, text>>
Errs      == {<<"err", "e1">>, <<"err", "e2">>}
NoErr     == <<"nil", "">>
PanicVals == {"boom"}
NoPanic   == "none"
Names     == {"op"}
\* the (level, message) pairs of emission calls: every level, two messages
EmitInputs == {<<v, "m1">> : v \in Levels} \cup {<<"info", "m2">>}

VARIABLES
    cfgLoki,    \* globalCfg.EnableLoki
    lg,         \* sequence of Eotel values, in allocation order
    spans,      \* sequence of spans the tracer has started
    zapOut,     \* calls received by the zap logger
    logChan,    \* entries waiting in the export channel
    consumed,   \* entries the background consumer has taken
    sendCalls,  \* number of Exporter.Send calls begun
    captured,   \* calls received by Exporter.CaptureError
    logTotal,   \* log_total counter, per level
    durHist,    \* log_duration_ms recordings
    req,        \* the gin context of one inbound request
    exited,     \* os.Exit has run
    now,        \* clock
    lastCall    \* "Guard(none)" / "FromContext(found)" right after such a call, else "call"

vars == <<cfgLoki, lg, spans, zapOut, logChan, consumed, sendCalls, captured,
          logTotal, durHist, req, exited, now, lastCall>>

\* capacity of the export channel logChan
QueueCap == 1

\* ------------------------------------------------------------ config.go
ServiceName == "eotel"
JobName     == "eotel-job"
\* faulty variant: the EnableLoki test dropped from log
ExportAlways == TRUE
ExportEnabled == cfgLoki

\* ------------------------------------------------- strings and ordering
\* Go compares keys as byte strings; KeyOrder lists the keys of the model
\* in that order.
KeyOrder == <<"a", "b", "duration_ms", "error", "ip", "log.level",
              "log.message", "method", "path", "ua">>

\* fmt.Sprintf("%v", value): the printed form, the dynamic type is lost
Sprintf(v) == v[2]
\* err.Error()
ErrorText(e) == IF e[1] = "panic" THEN "panic: boom" ELSE e[2]
\* fmt.Errorf("panic: %v", rec)
PanicError(rec) == <<"panic", rec>>
\* TraceID.String() / SpanID.String(); 0 is the invalid (all-zero) id
IdTable == <<"0000", "0001", "0002", "0003", "0004", "0005", "0006">>
IdString(n) == IdTable[n + 1]

\* attribute.String(key, s) / attribute.Float64(key, f)
AttrString(k, s) == <<k, "STRING", s>>
AttrFloat(k, f)  == <<k, "FLOAT64", IdTable[f + 1]>>

\* ------------------------------------------------------------- contexts
Background == [span |-> 0, logger |-> 0]
Inject(ctx, i) == [ctx EXCEPT !.logger = i]

\* ---------------------------------------------------------------- spans
\* tracer.Start(ctx, name): a new span, child of the span ctx carries
TracerStart(ctx, name, sp) ==
    LET id == Len(sp) + 1
        s  == [parent |-> ctx.span,
               trace  |-> IF ctx.span = 0 THEN id ELSE sp[ctx.span].trace,
               name   |-> name,
               attrs  |-> <<>>,
               errs   |-> <<>>,
               events |-> <<>>,
               ends   |-> 0]
    IN  [ctx |-> [ctx EXCEPT !.span = id], span |-> id, spans |-> Append(sp, s)]

\* span.SetAttributes(attrs...)
SpanSetAttributes(sp, s, attrs) == [sp EXCEPT ![s].attrs = attrs]
\* faulty variant: the error is not put on the span
SpanRecordNothing(sp, s, e) == sp
\* span.RecordError(err)
SpanRecordError(sp, s, e) == [sp EXCEPT ![s].errs = Append(@, e)]
\* span.End()
SpanEnd(sp, s) == [sp EXCEPT ![s].ends = @ + 1]
\* span.AddEvent(name, trace.WithAttributes(attrs...))
SpanAddEvent(sp, s, name, attrs) == [sp EXCEPT ![s].events = Append(@, <<name, attrs>>)]

\* -------------------------------------------------------------- loggers
NoPend == [level |-> "none", msg |-> "", abort |-> FALSE, id |-> 0]

\* New: no span yet, both metric instruments set
New(ctx, name) ==
    [ctx |-> ctx, span |-> 0, name |-> name, start |-> now,
     hasCounter |-> TRUE, hasHist |-> TRUE,
     fields |-> <<>>, attrs |-> <<>>, err |-> NoErr,
     creator |-> 0, pend |-> NoPend, ev |-> <<>>, out |-> "none", lvl |-> "none"]

\* faulty variant: the child is handed its creator's fields, attributes and error
ChildInheriting(l, i, name, sp) ==
    LET t == TracerStart(l.ctx, name, sp)
    IN  [l |-> [ctx |-> t.ctx, span |-> t.span, name |-> "", start |-> now,
                hasCounter |-> FALSE, hasHist |-> FALSE,
                fields |-> l.fields, attrs |-> l.attrs, err |-> l.err,
                creator |-> i, pend |-> NoPend, ev |-> <<>>, out |-> "none",
                lvl |-> "none"],
         spans |-> t.spans]

\* Child: a span started from the creator's ctx; logger, tracer, meter and
\* exporter are copied, name, logCounter and durationHist are not
Child(l, i, name, sp) ==
    LET t == TracerStart(l.ctx, name, sp)
    IN  [l |-> [ctx |-> t.ctx, span |-> t.span, name |-> "", start |-> now,
                hasCounter |-> FALSE, hasHist |-> FALSE,
                fields |-> <<>>, attrs |-> <<>>, err |-> NoErr,
                creator |-> i, pend |-> NoPend, ev |-> <<>>, out |-> "none",
                lvl |-> "none"],
         spans |-> t.spans]

\* faulty variant: the logger ctx carries is ignored
FromContextAlwaysNew(ctx, name, L) ==
    [i |-> Len(L) + 1, L |-> Append(L, New(ctx, name))]

\* FromContext: the logger ctx carries, or a new one appended to L
FromContext(ctx, name, L) ==
    IF ctx.logger # 0
    THEN [i |-> ctx.logger, L |-> L]
    ELSE [i |-> Len(L) + 1, L |-> Append(L, New(ctx, name))]

\* WithField: one zap field (native value) and one string attribute appended
WithField(l, k, v) ==
    [l EXCEPT !.fields = Append(@, <<k, v>>),
              !.attrs  = Append(@, AttrString(k, Sprintf(v)))]

\* WithFields: WithField for each pair of the map m, in iteration order ord
RECURSIVE WithFields(_, _, _)
WithFields(l, m, ord) ==
    IF ord = <<>> THEN l
    ELSE WithFields(WithField(l, Head(ord), m[Head(ord)]), m, Tail(ord))

\* faulty variant: the error is stored and added to the zap fields only
WithErrorFieldOnly(l, e) ==
    IF e # NoErr
    THEN [l EXCEPT !.err    = e,
                   !.fields = Append(@, <<"error", e>>)]
    ELSE l

\* WithError: nothing for nil; else err, an "error" field and attribute
WithError(l, e) ==
    IF e # NoErr
    THEN [l EXCEPT !.err    = e,
                   !.fields = Append(@, <<"error", e>>),
                   !.attrs  = Append(@, AttrString("error", ErrorText(e)))]
    ELSE l

\* SpanEvent: AddEvent on l.span unless l.span is nil
SpanEvent(l, sp, name, attrs) ==
    IF l.span # 0 THEN SpanAddEvent(sp, l.span, name, attrs) ELSE sp
\* SetSpanAttr: SetAttributes with one string attribute unless l.span is nil
SetSpanAttr(l, sp, k, v) ==
    IF l.span # 0 THEN SpanSetAttributes(sp, l.span, <<AttrString(k, Sprintf(v))>>) ELSE sp
\* SetSpanError: RecordError unless err is nil or l.span is nil
SetSpanError(l, sp, e) ==
    IF e # NoErr /\ l.span # 0 THEN SpanRecordError(sp, l.span, e) ELSE sp

\* the calls WithError makes to exporter.CaptureError
WithErrorCaptures(i, e) ==
    IF e # NoErr THEN << [lgr |-> i, err |-> e, extras |-> ErrorText(e)] >> ELSE <<>>

\* faulty variant: a span is started at every emission
StartSpanAlways(l, sp) ==
    LET t == TracerStart(l.ctx, l.name, sp)
    IN  [l |-> [l EXCEPT !.ctx = t.ctx, !.span = t.span], spans |-> t.spans]

\* startSpanIfNeeded
StartSpanIfNeeded(l, sp) ==
    IF l.span = 0
    THEN LET t == TracerStart(l.ctx, l.name, sp)
         IN  [l |-> [l EXCEPT !.ctx = t.ctx, !.span = t.span], spans |-> t.spans]
    ELSE [l |-> l, spans |-> sp]

\* sort.SliceStable by key: for each key in increasing order, the entries
\* with that key in their original order
RECURSIVE SortFrom(_, _)
SortFrom(s, r) ==
    IF r > Len(KeyOrder) THEN <<>>
    ELSE SelectSeq(s, LAMBDA a : a[1] = KeyOrder[r]) \o SortFrom(s, r + 1)
\* faulty variant: an unstable sort, entries of one key come out in reverse order
RECURSIVE Reverse(_)
Reverse(s) == IF s = <<>> THEN <<>> ELSE Reverse(Tail(s)) \o <<Head(s)>>
RECURSIVE SortFromReversing(_, _)
SortFromReversing(s, r) ==
    IF r > Len(KeyOrder) THEN <<>>
    ELSE Reverse(SelectSeq(s, LAMBDA a : a[1] = KeyOrder[r]))
         \o SortFromReversing(s, r + 1)
SortUnstable(s) == SortFromReversing(s, 1)
SortStable(s) == SortFrom(s, 1)

\* time.Since(l.start) in ms
DurationMs(l) == now - l.start

\* faulty variant: the sort is left out
EndSpanAttrsUnsorted(l, level, msg) ==
    l.attrs \o << AttrString("log.message", msg),
                  AttrString("log.level", level),
                  AttrFloat("duration_ms", DurationMs(l)) >>

\* faulty variant: the entries of earlier emissions are replaced
EndSpanAttrsOverwrite(l, level, msg) ==
    SortStable(SelectSeq(l.attrs, LAMBDA a : a[1] \notin {"log.message", "log.level",
                                                          "duration_ms"})
               \o << AttrString("log.message", msg),
                     AttrString("log.level", level),
                     AttrFloat("duration_ms", DurationMs(l)) >>)

\* endSpan, first half: l.attrs after the append and the sort
EndSpanAttrs(l, level, msg) ==
    SortStable(l.attrs \o << AttrString("log.message", msg),
                             AttrString("log.level", level),
                             AttrFloat("duration_ms", DurationMs(l)) >>)

\* faulty variant: End is skipped on a span that was ended before
EndSpanSpanOnce(l, attrs, sp) ==
    IF l.span # 0
    THEN LET s1 == SpanSetAttributes(sp, l.span, attrs)
             s2 == IF l.err # NoErr THEN SpanRecordError(s1, l.span, l.err) ELSE s1
         IN  IF sp[l.span].ends = 0 THEN SpanEnd(s2, l.span) ELSE s2
    ELSE sp

\* endSpan, span part: SetAttributes, RecordError if l.err, End
EndSpanSpan(l, attrs, sp) ==
    IF l.span # 0
    THEN LET s1 == SpanSetAttributes(sp, l.span, attrs)
             s2 == IF l.err # NoErr THEN SpanRecordError(s1, l.span, l.err) ELSE s1
         IN  SpanEnd(s2, l.span)
    ELSE sp

\* faulty variant: the counter is incremented twice
CounterAddTwice(total, level) == [total EXCEPT ![level] = @ + 2]
\* logCounter.Add(ctx, 1, level)
CounterAdd(total, level) == [total EXCEPT ![level] = @ + 1]
\* durationHist.Record(ctx, durationMs, level)
HistRecord(hist, level, ms) == Append(hist, <<level, ms>>)

\* faulty variant: the caller fields are passed to zap sorted by key
LogFieldsSorted(l, sp, level) ==
    << <<"trace_id", <<"string", IdString(sp[l.span].trace)>> >>,
       <<"span_id",  <<"string", IdString(l.span)>> >>,
       <<"job",      <<"string", JobName>> >>,
       <<"service",  <<"string", ServiceName>> >>,
       <<"level",    <<"string", level>> >> >> \o SortStable(l.fields)

\* the zap fields of one log call: five fixed fields, then l.fields
LogFields(l, sp, level) ==
    << <<"trace_id", <<"string", IdString(sp[l.span].trace)>> >>,
       <<"span_id",  <<"string", IdString(l.span)>> >>,
       <<"job",      <<"string", JobName>> >>,
       <<"service",  <<"string", ServiceName>> >>,
       <<"level",    <<"string", level>> >> >> \o l.fields

\* the LokiEntry defaultExporter.Send builds
LokiEntry(n, l, sp, level, msg) ==
    [id |-> n, level |-> level, job |-> JobName, service |-> ServiceName,
     trace_id |-> IdString(sp[l.span].trace), span_id |-> IdString(l.span),
     message |-> msg]

\* endSpan: attributes appended and sorted, span finished, metrics recorded.
\* A call through a nil instrument faults (fault = TRUE) and the rest of the
\* function does not run.
EndSpan(l, sp, level, msg, total, hist) ==
    LET attrs == EndSpanAttrs(l, level, msg)
        l1    == [l EXCEPT !.attrs = attrs]
        sp1   == EndSpanSpan(l1, attrs, sp)
        ev1   == IF l.span # 0 THEN <<"spanend">> ELSE <<>>
    IN  IF ~l.hasCounter
        THEN [l |-> l1, spans |-> sp1, total |-> total, hist |-> hist,
              ev |-> ev1, fault |-> TRUE]
        ELSE IF ~l.hasHist
        THEN [l |-> l1, spans |-> sp1, total |-> CounterAdd(total, level),
              hist |-> hist, ev |-> ev1 \o <<"count">>, fault |-> TRUE]
        ELSE [l |-> l1, spans |-> sp1, total |-> CounterAdd(total, level),
              hist |-> HistRecord(hist, level, DurationMs(l)),
              ev |-> ev1 \o <<"count", "duration">>, fault |-> FALSE]

\* log from endSpan on, and what the caller of log does next: Fatal ends the
\* span again and exits; the panic guard aborts the request (abort = TRUE)
Finish(L, i, sp, level, msg, abort, evs) ==
    LET r     == EndSpan(L[i], sp, level, msg, logTotal, durHist)
        fatal == level = "fatal" /\ ~r.fault
        sp2   == IF fatal /\ r.l.span # 0 THEN SpanEnd(r.spans, r.l.span) ELSE r.spans
        ev2   == evs \o r.ev \o
                 (IF fatal
                  THEN (IF r.l.span # 0 THEN <<"spanend">> ELSE <<>>) \o <<"exit">>
                  ELSE <<>>)
        out   == IF r.fault THEN "panicked" ELSE IF fatal THEN "exited" ELSE "returned"
    IN  /\ lg' = [L EXCEPT ![i] = [r.l EXCEPT !.ev = ev2, !.out = out,
                                              !.lvl = level, !.pend = NoPend]]
        /\ spans' = sp2
        /\ logTotal' = r.total
        /\ durHist' = r.hist
        /\ exited' = fatal
        /\ req' = IF abort /\ ~r.fault THEN [req EXCEPT !.status = 500] ELSE req

\* faulty variant: Send gives up on a full channel and the entry is lost
LogDropping(L, i, level, msg, zapExits, abort) ==
    LET s    == StartSpanIfNeeded(L[i], spans)
        L1   == [L EXCEPT ![i] = s.l]
        call == [lgr |-> i, level |-> level, msg |-> msg,
                 fields |-> LogFields(s.l, s.spans, level)]
    IN  /\ zapOut' = Append(zapOut, call)
        /\ sendCalls' = IF ExportEnabled THEN sendCalls + 1 ELSE sendCalls
        /\ logChan' = IF ExportEnabled /\ Len(logChan) < QueueCap
                      THEN Append(logChan,
                                  LokiEntry(sendCalls + 1, s.l, s.spans, level, msg))
                      ELSE logChan
        /\ Finish(L1, i, s.spans, level, msg, abort,
                  IF ExportEnabled THEN <<"log", "send">> ELSE <<"log">>)

\* log(level, msg) on logger i of L. zapExits: the zap logger's Fatal ends
\* the process after its write instead of returning.
Log(L, i, level, msg, zapExits, abort) ==
    LET s    == StartSpanIfNeeded(L[i], spans)
        l1   == s.l
        L1   == [L EXCEPT ![i] = l1]
        call == [lgr |-> i, level |-> level, msg |-> msg,
                 fields |-> LogFields(l1, s.spans, level)]
    IN  /\ zapOut' = Append(zapOut, call)
        /\ IF level = "fatal" /\ zapExits
           THEN /\ lg' = [L EXCEPT ![i] = [l1 EXCEPT !.ev = <<"log", "exit">>,
                                                    !.out = "exited", !.lvl = level]]
                /\ spans' = s.spans
                /\ exited' = TRUE
                /\ UNCHANGED <<logChan, sendCalls, logTotal, durHist, req>>
           ELSE IF ExportEnabled
           THEN /\ sendCalls' = sendCalls + 1
                /\ IF Len(logChan) < QueueCap
                   THEN /\ logChan' = Append(logChan,
                                        LokiEntry(sendCalls + 1, l1, s.spans, level, msg))
                        /\ Finish(L1, i, s.spans, level, msg, abort, <<"log", "send">>)
                   ELSE \* the channel is full: the caller blocks in Send
                        /\ lg' = [L EXCEPT ![i] =
                                     [l1 EXCEPT !.pend = [level |-> level, msg |-> msg,
                                                          abort |-> abort,
                                                          id |-> sendCalls + 1],
                                                !.ev = <<"log">>, !.out = "blocked",
                                                !.lvl = level]]
                        /\ spans' = s.spans
                        /\ UNCHANGED <<logChan, logTotal, durHist, exited, req>>
           ELSE /\ UNCHANGED <<logChan, sendCalls>>
                /\ Finish(L1, i, s.spans, level, msg, abort, <<"log">>)

\* ---------------------------------------------------------------- state
Loggers  == 1..Len(lg)
Ready(i) == lg[i].pend = NoPend
Ctxs     == {Background, req.ctx} \cup {lg[i].ctx : i \in Loggers}

RECURSIVE CallerFields(_)
CallerFields(L) ==
    IF L = <<>> THEN 0
    ELSE Len(SelectSeq(Head(L).fields, LAMBDA f : f[1] \in Keys \cup {"error"}))
         + CallerFields(Tail(L))

\* events added and errors recorded on the spans of sp
RECURSIVE HelperCalls(_)
HelperCalls(sp) ==
    IF sp = <<>> THEN 0
    ELSE Len(Head(sp).events) + Len(Head(sp).errs) + HelperCalls(Tail(sp))

\* the orders in which a map with key set S can be iterated
RECURSIVE Orders(_)
Orders(S) ==
    IF S = {} THEN {<<>>}
    ELSE UNION {{<<k>> \o o : o \in Orders(S \ {k})} : k \in S}

Init ==
    /\ cfgLoki \in BOOLEAN
    /\ lg = <<>>
    /\ spans = <<>>
    /\ zapOut = <<>>
    /\ logChan = <<>>
    /\ consumed = <<>>
    /\ sendCalls = 0
    /\ captured = <<>>
    /\ logTotal = [v \in Levels |-> 0]
    /\ durHist = <<>>
    /\ req = [st |-> "new", ctx |-> Background, status |-> 200, root |-> 0,
              logger |-> 0, guard |-> "none", panic |-> NoPanic,
              propagated |-> FALSE]
    /\ exited = FALSE
    /\ now = 0
    /\ lastCall = "call"

\* -------------------------------------------------------------- actions
LogOnly == <<zapOut, logChan, sendCalls, logTotal, durHist, exited>>

\* New(ctx, name)
NewCall(ctx, name) ==
    /\ ~exited /\ Len(lg) < MaxLoggers
    /\ lg' = Append(lg, New(ctx, name))
    /\ lastCall' = "call"
    /\ UNCHANGED <<cfgLoki, spans, consumed, captured, req, now>>
    /\ UNCHANGED LogOnly

\* l.FromContext(ctx, name)
FromContextCall(ctx, name) ==
    /\ ~exited
    /\ ctx.logger # 0 \/ Len(lg) < MaxLoggers
    /\ lg' = FromContext(ctx, name, lg).L
    /\ lastCall' = IF ctx.logger # 0 THEN "FromContext(found)" ELSE "call"
    /\ UNCHANGED <<cfgLoki, spans, consumed, captured, req, now>>
    /\ UNCHANGED LogOnly

\* l.Child(name)
ChildCall(i, name) ==
    /\ ~exited /\ Ready(i) /\ Len(lg) < MaxLoggers /\ Len(spans) < MaxSpans
    /\ LET c == Child(lg[i], i, name, spans)
       IN  /\ lg' = Append(lg, c.l)
           /\ spans' = c.spans
    /\ lastCall' = "call"
    /\ UNCHANGED <<cfgLoki, consumed, captured, req, now>>
    /\ UNCHANGED LogOnly

\* l.WithField(k, v)
WithFieldCall(i, k, v) ==
    /\ ~exited /\ Ready(i) /\ CallerFields(lg) < MaxFields
    /\ lg' = [lg EXCEPT ![i] = WithField(@, k, v)]
    /\ lastCall' = "call"
    /\ UNCHANGED <<cfgLoki, spans, consumed, captured, req, now>>
    /\ UNCHANGED LogOnly

\* l.WithFields(m), the map iterated in order ord
WithFieldsCall(i, m, ord) ==
    /\ ~exited /\ Ready(i) /\ CallerFields(lg) + Len(ord) <= MaxFields
    /\ lg' = [lg EXCEPT ![i] = WithFields(@, m, ord)]
    /\ lastCall' = "call"
    /\ UNCHANGED <<cfgLoki, spans, consumed, captured, req, now>>
    /\ UNCHANGED LogOnly

\* l.WithError(e), e possibly nil
WithErrorCall(i, e) ==
    /\ ~exited /\ Ready(i) /\ CallerFields(lg) < MaxFields
    /\ lg' = [lg EXCEPT ![i] = WithError(@, e)]
    /\ captured' = captured \o WithErrorCaptures(i, e)
    /\ lastCall' = "call"
    /\ UNCHANGED <<cfgLoki, spans, consumed, req, now>>
    /\ UNCHANGED LogOnly

\* l.SpanEvent(name, attrs...)
SpanEventCall(i, name, attrs) ==
    /\ ~exited /\ Ready(i)
    /\ HelperCalls(spans) < MaxFields
    /\ spans' = SpanEvent(lg[i], spans, name, attrs)
    /\ lastCall' = "call"
    /\ UNCHANGED <<cfgLoki, lg, consumed, captured, req, now>>
    /\ UNCHANGED LogOnly

\* l.SetSpanAttr(k, v)
SetSpanAttrCall(i, k, v) ==
    /\ ~exited /\ Ready(i)
    /\ spans' = SetSpanAttr(lg[i], spans, k, v)
    /\ lastCall' = "call"
    /\ UNCHANGED <<cfgLoki, lg, consumed, captured, req, now>>
    /\ UNCHANGED LogOnly

\* l.SetSpanError(e), e possibly nil
SetSpanErrorCall(i, e) ==
    /\ ~exited /\ Ready(i)
    /\ HelperCalls(spans) < MaxFields
    /\ spans' = SetSpanError(lg[i], spans, e)
    /\ lastCall' = "call"
    /\ UNCHANGED <<cfgLoki, lg, consumed, captured, req, now>>
    /\ UNCHANGED LogOnly

\* l.Info / Error / Debug / Warn / Fatal (msg)
EmitCall(i, level, msg, zapExits) ==
    /\ ~exited /\ Ready(i) /\ Len(zapOut) < MaxEmits
    /\ lg[i].span # 0 \/ Len(spans) < MaxSpans
    /\ Log(lg, i, level, msg, zapExits, FALSE)
    /\ lastCall' = "call"
    /\ UNCHANGED <<cfgLoki, consumed, captured, now>>

\* a caller blocked in Send proceeds once the channel has room
Resume(i) ==
    /\ ~exited /\ ~Ready(i) /\ Len(logChan) < QueueCap
    /\ LET p == lg[i].pend
       IN  /\ logChan' = Append(logChan,
                            LokiEntry(p.id, lg[i], spans, p.level, p.msg))
           /\ Finish(lg, i, spans, p.level, p.msg, p.abort, <<"log", "send">>)
    /\ lastCall' = "call"
    /\ UNCHANGED <<cfgLoki, zapOut, consumed, sendCalls, captured, now>>

\* the background consumer takes the oldest entry of logChan
Consume ==
    /\ ~exited /\ logChan # <<>>
    /\ consumed' = Append(consumed, Head(logChan))
    /\ logChan' = Tail(logChan)
    /\ UNCHANGED <<cfgLoki, lg, spans, zapOut, sendCalls, captured, logTotal,
                   durHist, req, exited, now, lastCall>>

\* time passes
Tick ==
    /\ ~exited /\ lg # <<>> /\ now < MaxEmits - 1
    /\ now' = now + 1
    /\ UNCHANGED <<cfgLoki, lg, spans, zapOut, logChan, consumed, sendCalls,
                   captured, logTotal, durHist, req, exited, lastCall>>

\* l.InjectToGin(c, logger)
InjectToGin(j) ==
    /\ ~exited
    /\ req.ctx.logger # j
    /\ req' = [req EXCEPT !.ctx = Inject(@, j)]
    /\ lastCall' = "call"
    /\ UNCHANGED <<cfgLoki, lg, spans, consumed, captured, now>>
    /\ UNCHANGED LogOnly

\* Middleware(name), up to c.Next(): root span, logger with four fields,
\* logger injected into the request context, two deferred calls registered
Middleware(name) ==
    /\ ~exited /\ req.st = "new"
    /\ Len(lg) < MaxLoggers /\ Len(spans) < MaxSpans
    /\ LET t == TracerStart(req.ctx, "GET /p", spans)
           l == WithField(WithField(WithField(WithField(New(t.ctx, name),
                    "method", <<"string", "GET">>),
                    "path", <<"string", "/p">>),
                    "ip", <<"string", "10.0.0.1">>),
                    "ua", <<"string", "curl">>)
           i == Len(lg) + 1
       IN  /\ spans' = t.spans
           /\ lg' = Append(lg, l)
           /\ req' = [req EXCEPT !.st = "handling", !.ctx = Inject(t.ctx, i),
                                 !.root = t.span, !.logger = i]
    /\ lastCall' = "call"
    /\ UNCHANGED <<cfgLoki, consumed, captured, now>>
    /\ UNCHANGED LogOnly

\* Middleware's deferred calls, run when c.Next() returns or panics with pv:
\* logger.RecoverPanic(c) is called and the function it returns is dropped
\* without being invoked, then the root span is ended. Nothing has called
\* recover, so a panic keeps unwinding past Middleware.
MiddlewareExit(pv) ==
    /\ ~exited /\ req.st = "handling"
    /\ spans' = SpanEnd(spans, req.root)
    /\ req' = [req EXCEPT !.st = "done", !.guard = "built", !.panic = pv,
                          !.propagated = (pv # NoPanic)]
    /\ lastCall' = "call"
    /\ UNCHANGED <<cfgLoki, lg, consumed, captured, now>>
    /\ UNCHANGED LogOnly

\* RecoverPanic's function once recover() has returned rec: the logger of
\* the request context (or a new one), WithError, Error, AbortWithStatus(500)
GuardBody(i, rec) ==
    /\ Len(zapOut) < MaxEmits
    /\ req.ctx.logger # 0 \/ Len(lg) < MaxLoggers
    /\ LET f == FromContext(req.ctx, "panic", lg)
           e == PanicError(rec)
           L == [f.L EXCEPT ![f.i] = WithError(@, e)]
       IN  /\ f.L[f.i].pend = NoPend
           /\ f.L[f.i].span # 0 \/ Len(spans) < MaxSpans
           /\ captured' = captured \o WithErrorCaptures(f.i, e)
           /\ Log(L, f.i, "error", "unhandled panic", FALSE, TRUE)
    /\ UNCHANGED <<cfgLoki, consumed, now>>

\* faulty variant: the guard without its recover() # nil test
GuardCallUnchecked(i, pv) ==
    /\ ~exited /\ Ready(i)
    /\ GuardBody(i, pv)
    /\ lastCall' = IF pv = NoPanic THEN "Guard(none)" ELSE "call"

\* the function returned by l.RecoverPanic(c), invoked as a deferred function
\* while the value pv is being panicked (NoPanic: recover() returns nil)
GuardCall(i, pv) ==
    /\ ~exited /\ Ready(i)
    /\ IF pv = NoPanic
       THEN /\ lastCall' = "Guard(none)"
            /\ UNCHANGED <<cfgLoki, lg, spans, consumed, captured, req, now>>
            /\ UNCHANGED LogOnly
       ELSE /\ GuardBody(i, pv)
            /\ lastCall' = "call"

\* ------------------------------------------------------- specifications
\* the emission protocol: every level, export on and off, a full channel
Next ==
    \/ \E c \in Ctxs, n \in Names : NewCall(c, n)
    \/ \E c \in Ctxs, n \in Names : FromContextCall(c, n)
    \/ \E i \in Loggers, n \in Names : ChildCall(i, n)
    \/ \E i \in Loggers, e \in {<<"err", "e1">>, NoErr} : WithErrorCall(i, e)
    \/ \E i \in Loggers, x \in EmitInputs : EmitCall(i, x[1], x[2], FALSE)
    \/ \E i \in Loggers : EmitCall(i, "fatal", "m1", TRUE)
    \/ \E i \in Loggers : Resume(i)
    \/ Consume
    \/ Tick
    \/ \E i \in Loggers, pv \in PanicVals : GuardCall(i, pv)

Spec == Init /\ [][Next]_vars

\* fields, errors and attributes: every attachment input, two emission inputs
NextAttr ==
    \/ \E n \in Names : NewCall(Background, n)
    \/ \E i \in Loggers, n \in Names : ChildCall(i, n)
    \/ \E i \in Loggers, f \in FieldInputs : WithFieldCall(i, f[1], f[2])
    \/ \E i \in Loggers, S \in SUBSET FieldInputs :
          /\ \A f, g \in S : f[1] = g[1] => f = g
          /\ \E o \in Orders({f[1] : f \in S}) :
                WithFieldsCall(i, [k \in {f[1] : f \in S} |->
                                     (CHOOSE f \in S : f[1] = k)[2]], o)
    \/ \E i \in Loggers, e \in Errs \cup {NoErr} : WithErrorCall(i, e)
    \/ \E i \in Loggers, x \in {<<"info", "m1">>, <<"error", "m2">>} :
          EmitCall(i, x[1], x[2], FALSE)
    \/ \E i \in Loggers : Resume(i)
    \/ Consume
    \/ Tick

SpecAttr == Init /\ [][NextAttr]_vars

\* the gin side: the middleware, the panic guard and context injection,
\* with the logger operations a request handler makes
NextGin ==
    \/ \E n \in Names : NewCall(Background, n)
    \/ \E n \in Names : FromContextCall(req.ctx, n)
    \/ \E i \in Loggers, n \in Names : ChildCall(i, n)
    \/ \E i \in Loggers : WithFieldCall(i, "a", <<"int", "1">>)
    \/ \E i \in Loggers, v \in {"info", "fatal"} : EmitCall(i, v, "m1", FALSE)
    \/ \E i \in Loggers : EmitCall(i, "fatal", "m1", TRUE)
    \/ \E i \in Loggers : Resume(i)
    \/ Consume
    \/ \E j \in Loggers : InjectToGin(j)
    \/ \E n \in Names : Middleware(n)
    \/ \E pv \in PanicVals \cup {NoPanic} : MiddlewareExit(pv)
    \/ \E i \in Loggers, pv \in PanicVals \cup {NoPanic} : GuardCall(i, pv)

SpecGin == Init /\ [][NextGin]_vars

\* the span helpers a caller uses between emissions
NextSpan ==
    \/ \E n \in Names : NewCall(Background, n)
    \/ \E i \in Loggers, n \in Names : ChildCall(i, n)
    \/ \E i \in Loggers : EmitCall(i, "info", "m1", FALSE)
    \/ \E i \in Loggers : Resume(i)
    \/ Consume
    \/ \E i \in Loggers : SpanEventCall(i, "ev", <<AttrString("a", "1")>>)
    \/ \E i \in Loggers : SetSpanAttrCall(i, "a", <<"int", "1">>)
    \/ \E i \in Loggers, e \in {<<"err", "e2">>, NoErr} : SetSpanErrorCall(i, e)

SpecSpan == Init /\ [][NextSpan]_vars

\* many producers and the one consumer of the export channel. The consumer
\* loops on the channel, and the Go runtime serves the senders waiting on a
\* channel in the order they arrived: weak fairness for the consumer, strong
\* fairness for each waiting producer.
NextQueue ==
    \/ \E n \in Names : NewCall(Background, n)
    \/ \E i \in Loggers, x \in {<<"info", "m1">>, <<"error", "m2">>} :
          EmitCall(i, x[1], x[2], FALSE)
    \/ \E i \in Loggers : EmitCall(i, "fatal", "m1", TRUE)
    \/ \E i \in Loggers : Resume(i)
    \/ Consume

SpecQueue ==
    /\ Init /\ [][NextQueue]_vars
    /\ WF_vars(Consume)
    /\ \A i \in 1..MaxLoggers : SF_vars(i \in Loggers /\ Resume(i))

\* ------------------------------------------------------------ properties
Last(q) == q[Len(q)]
IsPrefix(p, q) == Len(p) <= Len(q) /\ SubSeq(q, 1, Len(p)) = p
Range(q) == {q[n] : n \in 1..Len(q)}

RECURSIVE SumOver(_, _)
SumOver(f, S) ==
    IF S = {} THEN 0
    ELSE LET x == CHOOSE y \in S : TRUE IN f[x] + SumOver(f, S \ {x})

\* the three events of claim C1 among the events of logger i's last emission
Protocol(i) == SelectSeq(lg[i].ev, LAMBDA e : e \in {"log", "send", "count"})
\* entries the export channel has accepted so far
Accepted == Len(consumed) + Len(logChan)
\* the log calls logger i has made
LogCalls(i) == SelectSeq(zapOut, LAMBDA c : c.lgr = i)
\* logger i's last emission ran endSpan and nothing was attached since
Finalised(i) ==
    /\ lg[i].out \in {"returned", "panicked"}
    /\ lg[i].span # 0
    /\ spans[lg[i].span].attrs = lg[i].attrs

\* C1 as stated: an emission that has returned to its caller made one log
\* write, then one metrics-count increment, then (export enabled) one enqueue.
C1_AsStated ==
    \A i \in Loggers :
        lg[i].out = "returned" =>
            Protocol(i) = <<"log", "count">> \o
                          (IF cfgLoki THEN <<"send">> ELSE <<>>)

\* C1 amended: every emission makes exactly one log write, first; one that
\* returns to its caller has then made exactly one enqueue when export is
\* enabled (none when disabled) and then exactly one count increment; one
\* that has not returned has made a prefix of that sequence. Counted over the
\* run: count increments = duration records <= accepted entries <= log writes.
C1_LogThenSendThenCount ==
    LET full == <<"log">> \o (IF cfgLoki THEN <<"send">> ELSE <<>>) \o <<"count">>
    IN  /\ \A i \in Loggers :
              /\ lg[i].lvl # "none" =>
                    /\ Protocol(i) # <<>>
                    /\ IsPrefix(Protocol(i), full)
              /\ lg[i].out = "returned" => Protocol(i) = full
        /\ SumOver(logTotal, Levels) = Len(durHist)
        /\ cfgLoki => SumOver(logTotal, Levels) <= Accepted
        /\ ~cfgLoki => Accepted = 0
        /\ Accepted <= Len(zapOut)
        /\ SumOver(logTotal, Levels) <= Len(zapOut)

\* C1 witness: a completed emission with export enabled
C1_Witness ==
    \E i \in Loggers :
        /\ cfgLoki /\ lg[i].out = "returned"
        /\ lg[i].ev = <<"log", "send", "spanend", "count", "duration">>
        /\ SumOver(logTotal, Levels) = 1 /\ Accepted = 1

\* the entries with key k of an attribute or field list, in list order
WithKey(q, k) == SelectSeq(q, LAMBDA a : a[1] = k)
\* the string attributes WithField makes of a field list
RECURSIVE AsAttrs(_)
AsAttrs(fs) ==
    IF fs = <<>> THEN <<>>
    ELSE <<AttrString(Head(fs)[1], Sprintf(Head(fs)[2]))>> \o AsAttrs(Tail(fs))

\* C2 as stated: the sorted list handed to the span holds each caller key
\* exactly once, with the string form of the last value set for it.
C2_AsStated ==
    \A i \in Loggers :
        Finalised(i) =>
            \A k \in Keys :
                WithKey(lg[i].fields, k) # <<>> =>
                    WithKey(spans[lg[i].span].attrs, k) =
                        <<AttrString(k, Sprintf(Last(WithKey(lg[i].fields, k))[2]))>>

\* C2 amended: the sorted list handed to the span holds one entry per
\* WithField call, repeated keys included; the entries of one key stand in
\* call order, so the last entry of a key holds the string form of the value
\* set last.
C2_OneEntryPerCall ==
    \A i \in Loggers :
        Finalised(i) =>
            \A k \in Keys :
                WithKey(spans[lg[i].span].attrs, k) = AsAttrs(WithKey(lg[i].fields, k))

\* C2 witness: a key set twice with different values, then an emission
C2_Witness ==
    \E i \in Loggers :
        /\ Finalised(i)
        /\ WithKey(spans[lg[i].span].attrs, "b") =
              <<AttrString("b", "1"), AttrString("b", "2")>>

\* the emissions of logger i that have run span.End: every log call but one
\* still blocked in Send and one the zap logger ended the process in, and
\* once more for a Fatal that got as far as its own span.End
EndsExpected(i) ==
    Len(LogCalls(i))
    - (IF lg[i].out = "blocked" THEN 1 ELSE 0)
    - (IF lg[i].out = "exited" /\ lg[i].ev = <<"log", "exit">> THEN 1 ELSE 0)
    + (IF lg[i].out = "exited" /\ lg[i].ev # <<"log", "exit">> THEN 1 ELSE 0)

\* C3 as stated, for Info/Warn/Error/Debug: the span of a logger receives at
\* most one End call.
C3_AsStated ==
    \A i \in Loggers :
        lg[i].span # 0 /\ lg[i].lvl \in NonFatal => spans[lg[i].span].ends <= 1

\* C3 amended: every emission that reaches endSpan calls End on the logger's
\* span, ended or not, and a Fatal that returns from log calls it once more:
\* a logger that has emitted n times has made n End calls on one span.
C3_EndPerEmission ==
    \A i \in Loggers :
        lg[i].span # 0 => spans[lg[i].span].ends = EndsExpected(i)

\* C3 witness: two emissions of one logger, two End calls on its span
C3_Witness ==
    \E i \in Loggers :
        /\ Len(LogCalls(i)) = 2 /\ lg[i].out = "returned"
        /\ spans[lg[i].span].ends = 2

\* C5 as stated: a non-fatal emission on any logger runs to completion and
\* returns (it may wait in Send for room in the channel); it never faults.
C5_AsStated ==
    \A i \in Loggers :
        lg[i].lvl \in NonFatal => lg[i].out \in {"returned", "blocked"}

\* C6: with export disabled Send is never called, nothing is ever put on the
\* channel and no caller waits for it.
C6_NoExportWhenDisabled ==
    ~cfgLoki =>
        /\ sendCalls = 0
        /\ logChan = <<>> /\ consumed = <<>>
        /\ \A i \in Loggers : lg[i].pend = NoPend /\ "send" \notin Range(lg[i].ev)

\* C6 witness: export disabled; an error was attached, and a fatal emission
\* and the panic guard's emission have both run
C6_Witness ==
    /\ ~cfgLoki
    /\ captured # <<>>
    /\ \E n \in 1..Len(zapOut) : zapOut[n].msg = "unhandled panic"
    /\ \E n \in 1..Len(zapOut) : zapOut[n].level = "fatal"

\* C7 as stated: when Fatal has ended the process, the span end and both
\* metrics recordings of that emission have happened.
C7_AsStated ==
    \A i \in Loggers :
        lg[i].out = "exited" =>
            {"spanend", "count", "duration"} \subseteq Range(lg[i].ev)

\* the errors the error-reporting collaborator received from logger i
CapturedOf(i) == SelectSeq(captured, LAMBDA c : c.lgr = i)
RECURSIVE ErrsOf(_)
ErrsOf(q) == IF q = <<>> THEN <<>> ELSE <<Head(q).err>> \o ErrsOf(Tail(q))
RECURSIVE Values(_)
Values(fs) == IF fs = <<>> THEN <<>> ELSE <<Head(fs)[2]>> \o Values(Tail(fs))

\* C8: once a logger with error e has emitted (and the process lives on), the
\* error last recorded on its span is e; the error-reporting collaborator has
\* received one call per WithError(non-nil) call, in call order, and none
\* from emissions; the stored error is the last one attached.
C8_State ==
    \A i \in Loggers :
        /\ ErrsOf(CapturedOf(i)) = Values(WithKey(lg[i].fields, "error"))
        /\ lg[i].err = (IF CapturedOf(i) = <<>> THEN NoErr
                        ELSE Last(CapturedOf(i)).err)
        /\ (Finalised(i) /\ lg[i].err # NoErr) =>
              /\ spans[lg[i].span].errs # <<>>
              /\ Last(spans[lg[i].span].errs) = lg[i].err
\* ... and WithError(nil) changes no logger and reports nothing.
C8_NilStep ==
    (\E i \in Loggers : WithErrorCall(i, NoErr)) => UNCHANGED <<lg, spans, captured>>
C8_ErrorRecorded == [](C8_State) /\ [][C8_NilStep]_vars

\* C8 witness: WithError(e1), then an emission that recorded e1 on the span
C8_Witness ==
    \E i \in Loggers :
        /\ Finalised(i) /\ lg[i].err = <<"err", "e1">>
        /\ spans[lg[i].span].errs = << <<"err", "e1">> >>
        /\ Len(CapturedOf(i)) = 1

\* C10: a logger's span, once set, stays: every log call a logger has made
\* carries the ids of the span the logger holds now, every export entry
\* carries the ids of a log call with its level and message, and no more
\* spans were started than there are loggers and request root spans.
C10_OneSpanPerLogger ==
    /\ \A n \in 1..Len(zapOut) :
          LET c == zapOut[n]
              s == lg[c.lgr].span
          IN  /\ s # 0
              /\ c.fields[1] = <<"trace_id", <<"string", IdString(spans[s].trace)>> >>
              /\ c.fields[2] = <<"span_id", <<"string", IdString(s)>> >>
    /\ \A e \in Range(consumed \o logChan) :
          \E n \in 1..Len(zapOut) :
              /\ zapOut[n].level = e.level /\ zapOut[n].msg = e.message
              /\ zapOut[n].fields[1][2][2] = e.trace_id
              /\ zapOut[n].fields[2][2][2] = e.span_id
    /\ Len(spans) <= Len(lg) + (IF req.root # 0 THEN 1 ELSE 0)
    /\ \A i, j \in Loggers : i # j /\ lg[i].span # 0 => lg[i].span # lg[j].span

\* C10 witness: one logger has emitted twice, an export entry for each
C10_Witness ==
    \E i \in Loggers : Len(LogCalls(i)) = 2 /\ Accepted = 2 /\ lg[i].creator = 0

\* the five fields log puts before the caller's, for a call c of the zap logger
FixedFields(c, L, sp) ==
    LET s == L[c.lgr].span
    IN  << <<"trace_id", <<"string", IdString(sp[s].trace)>> >>,
           <<"span_id",  <<"string", IdString(s)>> >>,
           <<"job",      <<"string", "eotel-job">> >>,
           <<"service",  <<"string", "eotel">> >>,
           <<"level",    <<"string", c.level>> >> >>

\* C11: every call of the zap logger carries trace_id, span_id, job, service,
\* level, in that order, then the caller fields the logger held when the
\* emission was called, in the order they were attached; an emission (and
\* its completion after waiting in Send) leaves the logger's fields as they
\* were, so the next emission passes the same caller fields again.
C11_State ==
    \A n \in 1..Len(zapOut) :
        LET c == zapOut[n]
        IN  /\ Len(c.fields) >= 5
            /\ SubSeq(c.fields, 1, 5) = FixedFields(c, lg, spans)
            /\ IsPrefix(SubSeq(c.fields, 6, Len(c.fields)), lg[c.lgr].fields)
C11_EmitStep ==
    /\ Len(zapOut') > Len(zapOut) =>
          LET c == Last(zapOut')
          IN  /\ c.fields = FixedFields(c, lg', spans') \o lg[c.lgr].fields
              /\ lg'[c.lgr].fields = lg[c.lgr].fields
    /\ \A i \in Loggers :
          lg[i].pend # NoPend /\ lg'[i].pend = NoPend =>
              lg'[i].fields = lg[i].fields
C11_FieldsInAttachOrder == [](C11_State) /\ [][C11_EmitStep]_vars

\* C11 witness: fields attached against their sort order (b, then a), then
\* two emissions that both passed b, a after the five fixed fields
C11_Witness ==
    \E i \in Loggers :
        /\ lg[i].fields = << <<"b", <<"int", "1">> >>, <<"a", <<"string", "1">> >> >>
        /\ Len(LogCalls(i)) = 2
        /\ \A n \in 1..2 : SubSeq(LogCalls(i)[n].fields, 6, 7) = lg[i].fields

\* position of a key in the byte-string order of keys
KeyIndex(k) == CHOOSE r \in 1..Len(KeyOrder) : KeyOrder[r] = k
\* an attribute list in non-decreasing order of key
SortedByKey(q) ==
    \A m, n \in 1..Len(q) : m < n => KeyIndex(q[m][1]) <= KeyIndex(q[n][1])
\* the string attribute that goes with a zap field
FieldAttr(f) ==
    IF f[1] = "error" THEN AttrString("error", ErrorText(f[2]))
    ELSE AttrString(f[1], Sprintf(f[2]))

\* C12: every attribute list a span has been handed is in non-decreasing
\* order of key; and at the step in which an emission hands its list to the
\* span, the list contains the attribute of every field the caller attached,
\* log.message and log.level with that emission's message and severity, and
\* duration_ms with the time elapsed since the logger was made.
C12_State == \A s \in 1..Len(spans) : SortedByKey(spans[s].attrs)
C12_EmitStep ==
    \A i \in Loggers :
        LET s    == lg'[i].span
            mine == SelectSeq(zapOut', LAMBDA c : c.lgr = i)
        IN  (/\ s # 0
             /\ spans'[s].attrs # <<>>
             /\ (s > Len(spans) \/ spans'[s].attrs # spans[s].attrs)) =>
                /\ \A f \in Range(lg[i].fields) : FieldAttr(f) \in Range(spans'[s].attrs)
                /\ AttrString("log.message", Last(mine).msg) \in Range(spans'[s].attrs)
                /\ AttrString("log.level", Last(mine).level) \in Range(spans'[s].attrs)
                /\ AttrFloat("duration_ms", now - lg[i].start) \in Range(spans'[s].attrs)
C12_SortedWithLogAttrs == [](C12_State) /\ [][C12_EmitStep]_vars

\* C12 witness: b attached before a, one time unit passed, then an emission:
\* the span holds a, b, duration_ms, log.level, log.message
C12_Witness ==
    \E i \in Loggers :
        /\ lg[i].fields = << <<"b", <<"int", "1">> >>, <<"a", <<"string", "1">> >> >>
        /\ lg[i].span # 0
        /\ spans[lg[i].span].attrs =
              << AttrString("a", "1"), AttrString("b", "1"),
                 AttrFloat("duration_ms", 1), AttrString("log.level", "info"),
                 AttrString("log.message", "m1") >>

\* logger i's span has been started and has not been ended
Active(i) == lg[i].span # 0 /\ spans[lg[i].span].ends = 0

\* C13 as stated: SpanEvent, SetSpanAttr and SetSpanError on a logger whose
\* span is not active (not started yet, or ended by an emission) make no call
\* on any span.
C13_AsStated ==
    [][\A i \in Loggers :
          (/\ ~Active(i)
           /\ \/ SpanEventCall(i, "ev", <<AttrString("a", "1")>>)
              \/ SetSpanAttrCall(i, "a", <<"int", "1">>)
              \/ \E e \in {<<"err", "e2">>, NoErr} : SetSpanErrorCall(i, e))
          => UNCHANGED spans]_vars

\* the export entries accepted so far, oldest first
Pipeline == consumed \o logChan
\* the producers waiting in Send
Blocked == {i \in Loggers : ~Ready(i)}

\* C14: every entry the channel accepted was made by one Send call and is in
\* the pipeline once (no entry twice, none lost); every Send call has had its
\* entry accepted or its caller is still waiting, and an emission that has
\* returned with export enabled has had its entry accepted; the channel
\* never holds more than its capacity; the consumer takes entries from the
\* front, so entries leave in the order they entered; an emission that finds
\* the channel full waits and adds nothing; and with a consumer that keeps
\* running every waiting producer proceeds (unless a Fatal ends the process).
C14_State ==
    /\ \A m, n \in 1..Len(Pipeline) : m # n => Pipeline[m].id # Pipeline[n].id
    /\ \A n \in 1..Len(Pipeline) : Pipeline[n].id \in 1..sendCalls
    /\ sendCalls = Len(Pipeline) + Cardinality(Blocked)
    /\ \A i \in Blocked : \A n \in 1..Len(Pipeline) : Pipeline[n].id # lg[i].pend.id
    /\ Len(logChan) <= QueueCap
    /\ \A i \in Loggers :
          cfgLoki /\ lg[i].out = "returned" =>
              \E n \in 1..Len(Pipeline) :
                  /\ Pipeline[n].span_id = IdString(lg[i].span)
                  /\ Pipeline[n].message = Last(LogCalls(i)).msg
C14_Step ==
    /\ IsPrefix(consumed, consumed')
    /\ IsPrefix(Pipeline, Pipeline')
    /\ Len(consumed') <= Len(consumed) + 1
    /\ (cfgLoki /\ Len(zapOut') > Len(zapOut) /\ Len(logChan) = QueueCap /\ ~exited') =>
          /\ lg'[Last(zapOut').lgr].out = "blocked"
          /\ logChan' = logChan
C14_Live ==
    \A i \in 1..MaxLoggers :
        (i \in Loggers /\ ~Ready(i)) ~> ((i \in Loggers /\ Ready(i)) \/ exited)
C15_State ==
    /\ \A c \in Ctxs, i \in Loggers :
          FromContext(Inject(c, i), "op", lg) = [i |-> i, L |-> lg]
    /\ \A c \in Ctxs :
          LET f == FromContext(c, "op", lg)
          IN  /\ f.i \in 1..Len(f.L)
              /\ c.logger = 0 =>
                    /\ f.i = Len(lg) + 1
                    /\ SubSeq(f.L, 1, Len(lg)) = lg
                    /\ f.L[f.i].ctx = c /\ f.L[f.i].span = 0
                    /\ f.L[f.i].hasCounter /\ f.L[f.i].hasHist
    /\ \A i \in Loggers :
          lg[i].creator = 0 /\ lg[i].lvl \in NonFatal =>
              lg[i].out \in {"returned", "blocked"}
C15_Step ==
    lastCall' = "FromContext(found)" => lg' = lg /\ req.ctx.logger \in Loggers
C15_ContextRoundTrip == [](C15_State) /\ [][C15_Step]_vars

\* C15 witness: a Child-made logger was injected into the request context
\* and FromContext has just been called on that context
C15_Witness ==
    /\ lastCall = "FromContext(found)"
    /\ req.ctx.logger \in Loggers
    /\ lg[req.ctx.logger].creator # 0

\* C16 as stated: the span of a child logger is a child of its creator's own
\* span, the span the creator's emissions report as span_id, whether the
\* creator emitted before the Child call or only after it.
C16_AsStated ==
    \A i \in Loggers :
        (lg[i].creator # 0 /\ lg[lg[i].creator].span # 0) =>
            spans[lg[i].span].parent = lg[lg[i].creator].span

\* the log.message / log.level attributes of a sequence of zap calls
RECURSIVE MessageAttrs(_)
MessageAttrs(cs) ==
    IF cs = <<>> THEN <<>>
    ELSE <<AttrString("log.message", Head(cs).msg)>> \o MessageAttrs(Tail(cs))
RECURSIVE LevelAttrs(_)
LevelAttrs(cs) ==
    IF cs = <<>> THEN <<>>
    ELSE <<AttrString("log.level", Head(cs).level)>> \o LevelAttrs(Tail(cs))

\* C17 as stated: the list handed to the span at a logger's latest emission
\* holds exactly one log.message and one log.level entry, with that
\* emission's message and severity, and exactly one duration_ms entry.
C17_AsStated ==
    \A i \in Loggers :
        Finalised(i) =>
            LET a == spans[lg[i].span].attrs
            IN  /\ WithKey(a, "log.message") =
                      <<AttrString("log.message", Last(LogCalls(i)).msg)>>
                /\ WithKey(a, "log.level") =
                      <<AttrString("log.level", Last(LogCalls(i)).level)>>
                /\ Len(WithKey(a, "duration_ms")) = 1

\* C17 amended: the list handed to the span at a logger's n-th emission holds
\* n log.message, n log.level and n duration_ms entries, one per emission so
\* far and in emission order within each key; the last entry of each key
\* holds the n-th emission's message, severity and elapsed time. Nothing is
\* overwritten.
C17_State ==
    \A i \in Loggers :
        Finalised(i) =>
            LET a == spans[lg[i].span].attrs
            IN  /\ WithKey(a, "log.message") = MessageAttrs(LogCalls(i))
                /\ WithKey(a, "log.level") = LevelAttrs(LogCalls(i))
                /\ Len(WithKey(a, "duration_ms")) = Len(LogCalls(i))
C17_EmitStep ==
    \A i \in Loggers :
        LET s == lg'[i].span
        IN  (/\ s # 0
             /\ spans'[s].attrs # <<>>
             /\ (s > Len(spans) \/ spans'[s].attrs # spans[s].attrs)) =>
                /\ Last(WithKey(spans'[s].attrs, "duration_ms")) =
                      AttrFloat("duration_ms", now - lg[i].start)
                /\ s <= Len(spans) =>
                      IsPrefix(WithKey(spans[s].attrs, "duration_ms"),
                               WithKey(spans'[s].attrs, "duration_ms"))
C17_OneEntryPerEmission == [](C17_State) /\ [][C17_EmitStep]_vars

\* C17 witness: one logger has emitted m1 at info and then m2 at error; its
\* span holds both messages and both levels
C17_Witness ==
    \E i \in Loggers :
        /\ Finalised(i)
        /\ WithKey(spans[lg[i].span].attrs, "log.message") =
              <<AttrString("log.message", "m1"), AttrString("log.message", "m2")>>
        /\ WithKey(spans[lg[i].span].attrs, "log.level") =
              <<AttrString("log.level", "info"), AttrString("log.level", "error")>>

\* the string attributes that go with a list of zap fields
RECURSIVE FieldAttrs(_)
FieldAttrs(fs) ==
    IF fs = <<>> THEN <<>> ELSE <<FieldAttr(Head(fs))>> \o FieldAttrs(Tail(fs))

\* C18: on a logger that has not emitted yet, the pending attribute list is,
\* position by position, the field list with every value in its string form
\* (same length, same keys); a WithField call and a WithError call with a
\* non-nil error each lengthen both lists of their logger by one, a
\* WithFields call by one per pair of its map, and WithError(nil) changes
\* neither.
C18_State ==
    \A i \in Loggers :
        lg[i].lvl = "none" => lg[i].attrs = FieldAttrs(lg[i].fields)
C18_AttachStep ==
    \A i \in Loggers :
        /\ ((\E f \in FieldInputs : WithFieldCall(i, f[1], f[2]))
              \/ (\E e \in Errs : WithErrorCall(i, e))) =>
                /\ Len(lg'[i].fields) = Len(lg[i].fields) + 1
                /\ Len(lg'[i].attrs) = Len(lg[i].attrs) + 1
        /\ WithErrorCall(i, NoErr) =>
                lg'[i].fields = lg[i].fields /\ lg'[i].attrs = lg[i].attrs
        /\ Len(lg'[i].fields) - Len(lg[i].fields) \in {0, 1, 2}
        /\ lg'[i].lvl = "none" =>
                Len(lg'[i].fields) - Len(lg[i].fields)
                    = Len(lg'[i].attrs) - Len(lg[i].attrs)
C18_FieldsAndAttrsInSync == [](C18_State) /\ [][C18_AttachStep]_vars

\* C18 witness: WithField and WithError(e1) on a logger that has not emitted
C18_Witness ==
    \E i \in Loggers :
        /\ lg[i].lvl = "none"
        /\ lg[i].fields = << <<"b", <<"int", "1">> >>, <<"error", <<"err", "e1">> >> >>
        /\ lg[i].attrs = << AttrString("b", "1"), AttrString("error", "e1") >>

\* logger j and the span it holds are the same before and after the step
Untouched(j) ==
    /\ lg'[j] = lg[j]
    /\ lg[j].span # 0 => spans'[lg[j].span] = spans[lg[j].span]

\* C19: a step that makes a logger (New, Child) leaves every logger there
\* was, and its span, as it was, and the new logger has no fields, no pending
\* attributes and no recorded error; a WithField, WithFields, WithError or
\* emission call on logger i (and its completion after waiting in Send)
\* leaves every other logger, creator and child included, and that logger's
\* span as they were; no step changes two loggers.
C19_Step ==
    /\ Len(lg') > Len(lg) =>
          /\ \A j \in Loggers : Untouched(j)
          /\ Last(lg').fields = <<>> /\ Last(lg').attrs = <<>>
          /\ Last(lg').err = NoErr
    /\ \A i \in Loggers :
          (\/ \E f \in FieldInputs : WithFieldCall(i, f[1], f[2])
           \/ \E e \in Errs : WithErrorCall(i, e)
           \/ \E x \in {<<"info", "m1">>, <<"error", "m2">>} :
                 EmitCall(i, x[1], x[2], FALSE)
           \/ Resume(i)
           \/ lg'[i] # lg[i]) =>
              \A j \in Loggers \ {i} : Untouched(j)
C19_LoggersIsolated == [][C19_Step]_vars

\* C19 witness: a creator and its child, each with a field of its own, and
\* both have emitted
C19_Witness ==
    \E i, j \in Loggers :
        /\ lg[j].creator = i
        /\ lg[i].fields = << <<"b", <<"int", "1">> >> >>
        /\ lg[j].fields = << <<"a", <<"string", "1">> >> >>
        /\ lg[i].lvl # "none" /\ lg[j].lvl # "none"

\* the guard's emissions: error level, "unhandled panic", carrying the error
\* made of the recovered value rec
GuardEmissions(rec) ==
    SelectSeq(zapOut, LAMBDA c : /\ c.level = "error" /\ c.msg = "unhandled panic"
                                 /\ <<"error", PanicError(rec)>> \in Range(c.fields))

\* C4 as stated: after a handler under Middleware has panicked, the guard has
\* run, the panic has not passed Middleware, one error-level emission carries
\* the synthetic error, and the request is aborted with status 500.
C4_AsStated ==
    (req.st = "done" /\ req.panic # NoPanic) =>
        /\ req.guard = "ran"
        /\ ~req.propagated
        /\ Len(GuardEmissions(req.panic)) = 1
        /\ req.status = 500

\* C9: a call of RecoverPanic's function with no panic in flight leaves every
\* logger, every span, the zap output, the metrics, the export calls, the
\* error reports and the request as they were.
C9_GuardIdleIsNoOp ==
    [][lastCall' = "Guard(none)" =>
          UNCHANGED <<lg, spans, zapOut, sendCalls, captured, logTotal, durHist,
                      req, exited>>]_vars

\* C9 witness: the guard has just been called with no panic, during a request
\* whose logger has fields and an active span
C9_Witness ==
    /\ lastCall = "Guard(none)"
    /\ req.st = "handling"
    /\ lg[req.logger].span # 0 /\ lg[req.logger].out = "returned"

====
